---- MODULE Spec2Model ----
(***************************************************************************)
(* Model of the Blender operator ObjectSRPolygonTransform                  *)
(* (src/src/srPolygonTransform.py): the Lorentz matrix, its inverse and    *)
(* the per-vertex backward-light-cone transform of the selected mesh.      *)
(*                                                                         *)
(* Numbers.  A float64 is modelled by a pair <<n, d>>: a reduced fraction  *)
(* n/d with d > 0, or one of the IEEE specials <<0,0>> (NaN), <<1,0>>      *)
(* (+inf), <<-1,0>> (-inf).  +, -, * and / are exact on finite values and  *)
(* follow IEEE-754 on the specials (numpy's default error state warns and  *)
(* returns NaN/inf, it does not raise).  sqrt is exact where the root is   *)
(* rational and rounds down to a multiple of 1/SqrtDen otherwise.  A       *)
(* float32 (a stored vertex coordinate) is a multiple of 1/F32Den.         *)
(* Matrices and vectors are indexed from 1 (the source indexes from 0).    *)
(***************************************************************************)
EXTENDS Integers, Sequences, FiniteSets, TLC

(* ---------------------------------------------------------------- bounds *)
\* largest number of vertices of the selected mesh
MaxVerts == 2
\* resolution of an inexact square root: results are multiples of 1/SqrtDen
SqrtDen == 16
\* resolution of a stored (single precision) coordinate
F32Den == 64

(* ------------------------------------------------------------ arithmetic *)
NaN == <<0, 0>>
PosInf == <<1, 0>>
NegInf == <<-1, 0>>
Zero == <<0, 1>>
One == <<1, 1>>

Abs(n) == IF n < 0 THEN -n ELSE n
Sgn(n) == IF n < 0 THEN -1 ELSE IF n > 0 THEN 1 ELSE 0

RECURSIVE GCD(_, _)
GCD(a, b) == IF b = 0 THEN a ELSE GCD(b, a % b)

\* the float with value n/d, d # 0
Q(n, d) ==
    LET g == GCD(Abs(n), Abs(d))
    IN  <<(Sgn(d) * n) \div g, Abs(d) \div g>>

IsFinite(x) == x[2] # 0
IsNaN(x) == x = NaN

Neg(x) == <<-x[1], x[2]>>

Add(x, y) ==
    IF IsNaN(x) \/ IsNaN(y) THEN NaN
    ELSE IF ~IsFinite(x) /\ ~IsFinite(y) THEN (IF x = y THEN x ELSE NaN)
    ELSE IF ~IsFinite(x) THEN x
    ELSE IF ~IsFinite(y) THEN y
    ELSE Q(x[1] * y[2] + y[1] * x[2], x[2] * y[2])

Sub(x, y) == Add(x, Neg(y))

Mul(x, y) ==
    IF IsNaN(x) \/ IsNaN(y) THEN NaN
    ELSE IF ~IsFinite(x) \/ ~IsFinite(y)
         THEN (IF x[1] = 0 \/ y[1] = 0 THEN NaN ELSE <<Sgn(x[1]) * Sgn(y[1]), 0>>)
    ELSE Q(x[1] * y[1], x[2] * y[2])

Div(x, y) ==
    IF IsNaN(x) \/ IsNaN(y) THEN NaN
    ELSE IF ~IsFinite(y) THEN (IF ~IsFinite(x) THEN NaN ELSE Zero)
    ELSE IF ~IsFinite(x) THEN <<x[1] * (IF y[1] < 0 THEN -1 ELSE 1), 0>>
    ELSE IF y[1] = 0 THEN (IF x[1] = 0 THEN NaN ELSE <<Sgn(x[1]), 0>>)
    ELSE Q(x[1] * y[2], x[2] * y[1])

\* x < y and x <= y on floats; every comparison with NaN is false
Less(x, y) ==
    /\ ~IsNaN(x) /\ ~IsNaN(y) /\ x # y
    /\ IF ~IsFinite(x) THEN x = NegInf
       ELSE IF ~IsFinite(y) THEN y = PosInf
       ELSE LET g == GCD(x[2], y[2])
            IN  x[1] * (y[2] \div g) < y[1] * (x[2] \div g)
Leq(x, y) == ~IsNaN(x) /\ ~IsNaN(y) /\ (x = y \/ Less(x, y))

RECURSIVE ISqrtB(_, _, _)
ISqrtB(n, lo, hi) ==
    IF lo >= hi THEN lo
    ELSE LET m == (lo + hi + 1) \div 2
         IN  IF m * m <= n THEN ISqrtB(n, m, hi) ELSE ISqrtB(n, lo, m - 1)
\* floor of the square root of the natural number n
ISqrt(n) == ISqrtB(n, 0, IF n < 46340 THEN n ELSE 46340)

\* floor of x * SqrtDen^2 for a finite x >= 0, whole part and fraction apart
ScaledFloor(x) ==
    (x[1] \div x[2]) * SqrtDen * SqrtDen
        + ((x[1] % x[2]) * SqrtDen * SqrtDen) \div x[2]

Sqrt(x) ==
    IF IsNaN(x) \/ x = NegInf THEN NaN
    ELSE IF x = PosInf THEN PosInf
    ELSE IF x[1] < 0 THEN NaN
    ELSE LET rn == ISqrt(x[1])
             rd == ISqrt(x[2])
         IN  IF rn * rn = x[1] /\ rd * rd = x[2] THEN <<rn, rd>>
             ELSE Q(ISqrt(ScaledFloor(x)), SqrtDen)

\* floor of the finite float x
Floor(x) == x[1] \div x[2]

\* float64 -> float32: the nearest multiple of 1/F32Den; specials are kept
ToFloat32(x) ==
    IF ~IsFinite(x) THEN x
    ELSE Q(Floor(Add(Mul(x, <<F32Den, 1>>), <<1, 2>>)), F32Den)

(* ------------------------------------------------- vectors and matrices *)
Dot(u, v) ==
    LET RECURSIVE S(_)
        S(k) == IF k = 0 THEN Zero
                ELSE IF k = 1 THEN Mul(u[1], v[1])
                ELSE Add(S(k - 1), Mul(u[k], v[k]))
    IN  S(Len(u))

VAdd(u, v) == [k \in 1..Len(u) |-> Add(u[k], v[k])]
VSub(u, v) == [k \in 1..Len(u) |-> Sub(u[k], v[k])]
VScale(c, v) == [k \in 1..Len(v) |-> Mul(c, v[k])]
MatVec(M, v) == [i \in 1..Len(M) |-> Dot(M[i], v)]
Identity4 == [i \in 1..4 |-> [j \in 1..4 |-> IF i = j THEN One ELSE Zero]]
NaNMatrix == [i \in 1..4 |-> [j \in 1..4 |-> NaN]]
MatFinite(M) == \A i \in 1..4 : \A j \in 1..4 : IsFinite(M[i][j])
\* spatial part obs[1:] of a 4-vector
Spatial(e) == <<e[2], e[3], e[4]>>
\* np.append([t], p)
Append4(t, p) == <<t, p[1], p[2], p[3]>>

Det2(a, b, c, d) == Sub(Mul(a, d), Mul(b, c))
\* determinant of the 3x3 matrix left of M by deleting row r and column c
Minor(M, r, c) ==
    LET rs == [k \in 1..3 |-> IF k < r THEN k ELSE k + 1]
        cs == [k \in 1..3 |-> IF k < c THEN k ELSE k + 1]
        e(i, j) == M[rs[i]][cs[j]]
    IN  Add(Sub(Mul(e(1, 1), Det2(e(2, 2), e(2, 3), e(3, 2), e(3, 3))),
                Mul(e(1, 2), Det2(e(2, 1), e(2, 3), e(3, 1), e(3, 3)))),
            Mul(e(1, 3), Det2(e(2, 1), e(2, 2), e(3, 1), e(3, 2))))
Cofactor(M, r, c) ==
    IF (r + c) % 2 = 0 THEN Minor(M, r, c) ELSE Neg(Minor(M, r, c))
Det(M) ==
    Add(Add(Mul(M[1][1], Cofactor(M, 1, 1)), Mul(M[1][2], Cofactor(M, 1, 2))),
        Add(Mul(M[1][3], Cofactor(M, 1, 3)), Mul(M[1][4], Cofactor(M, 1, 4))))

\* numpy.linalg.inv: the inverse of a regular matrix; the empty tuple stands
\* for LinAlgError("Singular matrix"), raised on an exactly zero pivot.  A
\* matrix holding NaN (every entry of the lower right block is NaN once gamma
\* is not finite) never yields a zero pivot, as NaN # 0: the LU solve returns
\* NaN throughout.
Inv(M) ==
    IF ~MatFinite(M) THEN NaNMatrix
    ELSE LET d == Det(M)
         IN  IF d = Zero THEN <<>>
             ELSE [i \in 1..4 |-> [j \in 1..4 |-> Div(Cofactor(M, j, i), d)]]

(* ------------------------------------------------------------- operator *)
\* Kronecker delta
kdelta(a, b) == IF a = b THEN One ELSE Zero

\* gamma = 1 / np.sqrt(1 - np.dot(beta, beta))
Gamma(beta) == Div(One, Sqrt(Sub(One, Dot(beta, beta))))

\* faulty variant: the time-space entries carry the positive sign
lorentzMatrix_positiveSign(beta) ==
    LET gamma == Gamma(beta)
        c == Div(Mul(gamma, gamma), Add(gamma, One))
    IN  [i \in 1..4 |-> [j \in 1..4 |->
            IF i = 1 /\ j = 1 THEN gamma
            ELSE IF i = 1 THEN Mul(gamma, beta[j - 1])
            ELSE IF j = 1 THEN Mul(Neg(gamma), beta[i - 1])
            ELSE Add(kdelta(i, j), Mul(Mul(c, beta[i - 1]), beta[j - 1]))]]

\* faulty variant: gamma / (gamma + 1) for gamma**2 / (gamma + 1)
lorentzMatrix_gammaNotSquared(beta) ==
    LET gamma == Gamma(beta)
        c == Div(gamma, Add(gamma, One))
    IN  [i \in 1..4 |-> [j \in 1..4 |->
            IF i = 1 /\ j = 1 THEN gamma
            ELSE IF i = 1 THEN Mul(Neg(gamma), beta[j - 1])
            ELSE IF j = 1 THEN Mul(Neg(gamma), beta[i - 1])
            ELSE Add(kdelta(i, j), Mul(Mul(c, beta[i - 1]), beta[j - 1]))]]

lorentzMatrix(beta) ==
    LET gamma == Gamma(beta)
        c == Div(Mul(gamma, gamma), Add(gamma, One))
    IN  [i \in 1..4 |-> [j \in 1..4 |->
            IF i = 1 /\ j = 1 THEN gamma
            ELSE IF i = 1 THEN Mul(Neg(gamma), beta[j - 1])
            ELSE IF j = 1 THEN Mul(Neg(gamma), beta[i - 1])
            ELSE Add(kdelta(i, j), Mul(Mul(c, beta[i - 1]), beta[j - 1]))]]

(* ---------------------------------------------------------------- inputs *)
V3(x, y, z) == <<Q(x, 1), Q(y, 1), Q(z, 1)>>
\* scene.camera is None
NoCamera == <<>>
\* a local that has not been assigned
Unset == <<>>

Objects == {"Cube", "Plane", "Lamp"}
ObjType == [o \in Objects |-> IF o = "Lamp" THEN "LAMP" ELSE "MESH"]
Points == {V3(1, 0, 0), V3(-2, 0, 0), V3(0, 1, 1)}
Meshes == UNION {[1..n -> Points] : n \in 0..MaxVerts}
Cameras == {NoCamera, V3(0, 0, 0), V3(1, 0, 0)}
Locations == {V3(0, 0, 0), V3(2, 0, 0)}
Selections == {<<>>, <<"Cube">>, <<"Lamp">>, <<"Cube", "Plane">>, <<"Lamp", "Cube">>}
DefaultBeta == <<Q(1, 2), Zero, Zero>>
Betas == {DefaultBeta,
          <<Zero, Zero, Zero>>,
          <<Q(3, 5), Zero, Zero>>,
          <<Q(1, 2), Q(-1, 2), Q(1, 2)>>,
          <<One, Zero, Zero>>,
          <<Q(4, 5), Q(4, 5), Zero>>}
Times == {Zero, One}

(* ----------------------------------------------------------------- state *)
VARIABLES
    camera,             \* scene.camera.location, or NoCamera
    location,           \* obj.location of every object
    co,                 \* v.co of every vertex of every object's mesh
    selected_objects,   \* context.selected_objects
    beta_xyz,           \* operator property beta_xyz
    t_obs,              \* operator property t_obs
    pc,                 \* "idle", "loop" (inside the for loop) or "done"
    status,             \* how execute ended: "none", "FINISHED" or an exception
    reports,            \* the messages given to self.report
    obj,                \* evalLT's local obj
    L, invL, a2, obs2,  \* evalLT's locals of the same names
    idx,                \* index of the next vertex of the for loop
    delta, tp2,         \* the loop body's locals, as last assigned
    co0,                \* history: co when the operator was constructed
    writes              \* history: how often each vertex's co was assigned

vars == <<camera, location, co, selected_objects, beta_xyz, t_obs, pc, status,
          reports, obj, L, invL, a2, obs2, idx, delta, tp2, co0, writes>>

scene == <<camera, location, selected_objects>>
props == <<beta_xyz, t_obs>>
locals == <<obj, L, invL, a2, obs2, idx, delta, tp2>>

Init ==
    /\ camera \in Cameras
    /\ location \in [Objects -> Locations]
    /\ location["Plane"] = V3(0, 0, 0)
    /\ location["Lamp"] = V3(0, 0, 0)
    /\ \E m \in Meshes :
          co = [o \in Objects |-> IF o = "Cube" THEN m
                                  ELSE IF o = "Plane" THEN <<V3(1, 0, 0)>>
                                  ELSE <<>>]
    /\ selected_objects \in Selections
    /\ beta_xyz = DefaultBeta
    /\ t_obs = Zero
    /\ pc = "idle"
    /\ status = "none"
    /\ reports = <<>>
    /\ obj = "none"
    /\ L = Unset /\ invL = Unset /\ a2 = Unset /\ obs2 = Unset
    /\ idx = 0
    /\ delta = NaN /\ tp2 = NaN
    /\ co0 = co
    /\ writes = [o \in Objects |-> [k \in 1..Len(co[o]) |-> 0]]

\* the property beta_xyz is assigned (keyword argument, redo panel); the
\* FloatVectorProperty declares neither min nor max
SetBeta(b) ==
    /\ pc = "idle"
    /\ beta_xyz' = b
    /\ UNCHANGED <<scene, co, t_obs, pc, status, reports, locals, co0, writes>>

\* the property t_obs is assigned
SetTobs(t) ==
    /\ pc = "idle"
    /\ t_obs' = t
    /\ UNCHANGED <<scene, co, beta_xyz, pc, status, reports, locals, co0, writes>>

\* faulty variant: the type of the first selected object is checked before the count
SelectionMessage_typeFirst(sel) ==
    IF Len(sel) = 0 THEN "One object has to be selected!"
    ELSE IF ObjType[sel[1]] # "MESH" THEN "Selected object has to be a mesh-object!"
    ELSE IF Len(sel) > 1 THEN "Select only one object!"
    ELSE ""

\* the message of the first selection check that fails, "" when all pass
SelectionMessage(sel) ==
    IF Len(sel) = 0 THEN "One object has to be selected!"
    ELSE IF Len(sel) > 1 THEN "Select only one object!"
    ELSE IF ObjType[sel[1]] # "MESH" THEN "Selected object has to be a mesh-object!"
    ELSE ""

\* faulty variant: the object's offset is added, not subtracted
ObserverEvent_plusOffset(lm, t, cam, loc) ==
    LET obs == <<t, Zero, Zero, Zero>>
        a1 == Append4(Zero, cam)
        oa == Append4(Zero, loc)
    IN  MatVec(lm, VAdd(VAdd(obs, a1), oa))

\* obs2 = L.dot(obs + a1 - a2): the observer in the object's rest frame
ObserverEvent(lm, t, cam, loc) ==
    LET obs == <<t, Zero, Zero, Zero>>
        a1 == Append4(Zero, cam)
        oa == Append4(Zero, loc)
    IN  MatVec(lm, VSub(VAdd(obs, a1), oa))

\* evalLT up to the for loop; execute returns FINISHED when evalLT returns
Invoke ==
    /\ pc = "idle"
    /\ IF SelectionMessage(selected_objects) # ""
         THEN /\ reports' = Append(reports, SelectionMessage(selected_objects))
              /\ status' = "FINISHED"
              /\ pc' = "done"
              /\ UNCHANGED locals
       ELSE LET o == selected_objects[1]
                lm == lorentzMatrix(beta_xyz)
                im == Inv(lm)
            IN  /\ obj' = o
                /\ L' = lm
                /\ IF im = <<>>
                     THEN /\ status' = "LinAlgError"
                          /\ pc' = "done"
                          /\ UNCHANGED <<invL, a2, obs2, idx>>
                   ELSE IF camera = NoCamera
                     THEN /\ invL' = im
                          /\ status' = "AttributeError"
                          /\ pc' = "done"
                          /\ UNCHANGED <<a2, obs2, idx>>
                   ELSE /\ invL' = im
                        /\ a2' = Append4(Zero, location[o])
                        /\ obs2' = ObserverEvent(lm, t_obs, camera, location[o])
                        /\ idx' = 1
                        /\ pc' = "loop"
                        /\ UNCHANGED status
                /\ UNCHANGED <<reports, delta, tp2>>
    /\ UNCHANGED <<scene, props, co, co0, writes>>

\* faulty variant: the object's offset is added back (+ a2 for + 0*a2)
NewCo_addOffset(v, d, t) ==
    LET obj2 == Append4(t, v)
        obj1 == VAdd(MatVec(invL, obj2), a2)
    IN  [k \in 1..3 |-> ToFloat32(Spatial(obj1)[k])]

\* the position the loop body assigns to a vertex at v
NewCo(v, d, t) ==
    LET obj2 == Append4(t, v)
        obj1 == VAdd(MatVec(invL, obj2), VScale(Zero, a2))
    IN  [k \in 1..3 |-> ToFloat32(Spatial(obj1)[k])]

\* faulty variant: the new position is assigned to every vertex of the mesh
VertexStep_broadcast ==
    /\ pc = "loop"
    /\ idx <= Len(co[obj])
    /\ LET v == co[obj][idx]
           dx == VSub(v, Spatial(obs2))
           d == Sqrt(Dot(dx, dx))
           t == Sub(obs2[1], d)
       IN  /\ delta' = d
           /\ tp2' = t
           /\ co' = [co EXCEPT ![obj] = [k \in 1..Len(co[obj]) |-> NewCo(v, d, t)]]
           /\ writes' = [writes EXCEPT ![obj] = [k \in 1..Len(co[obj]) |-> @[k] + 1]]
    /\ idx' = idx + 1
    /\ UNCHANGED <<scene, props, pc, status, reports, obj, L, invL, a2, obs2, co0>>

\* faulty variant: the observer event is moved to the vertex just transformed
VertexStep_movesObserver ==
    /\ pc = "loop"
    /\ idx <= Len(co[obj])
    /\ LET v == co[obj][idx]
           dx == VSub(v, Spatial(obs2))
           d == Sqrt(Dot(dx, dx))
           t == Sub(obs2[1], d)
       IN  /\ delta' = d
           /\ tp2' = t
           /\ co' = [co EXCEPT ![obj][idx] = NewCo(v, d, t)]
           /\ writes' = [writes EXCEPT ![obj][idx] = @ + 1]
           /\ obs2' = Append4(t, v)
    /\ idx' = idx + 1
    /\ UNCHANGED <<scene, props, pc, status, reports, obj, L, invL, a2, co0>>

\* one pass of the for loop's body
VertexStep ==
    /\ pc = "loop"
    /\ idx <= Len(co[obj])
    /\ LET v == co[obj][idx]
           dx == VSub(v, Spatial(obs2))
           d == Sqrt(Dot(dx, dx))
           t == Sub(obs2[1], d)
       IN  /\ delta' = d
           /\ tp2' = t
           /\ co' = [co EXCEPT ![obj][idx] = NewCo(v, d, t)]
           /\ writes' = [writes EXCEPT ![obj][idx] = @ + 1]
    /\ idx' = idx + 1
    /\ UNCHANGED <<scene, props, pc, status, reports, obj, L, invL, a2, obs2, co0>>

\* faulty variant: the loop ends one vertex early
Finish_early ==
    /\ pc = "loop"
    /\ idx >= Len(co[obj])
    /\ pc' = "done"
    /\ status' = "FINISHED"
    /\ UNCHANGED <<scene, props, co, reports, locals, co0, writes>>

\* the for loop is exhausted: evalLT returns and execute returns FINISHED
Finish ==
    /\ pc = "loop"
    /\ idx > Len(co[obj])
    /\ pc' = "done"
    /\ status' = "FINISHED"
    /\ UNCHANGED <<scene, props, co, reports, locals, co0, writes>>

Next ==
    \/ \E b \in Betas : SetBeta(b)
    \/ \E t \in Times : SetTobs(t)
    \/ Invoke
    \/ VertexStep
    \/ Finish

Spec == Init /\ [][Next]_vars

(* ------------------------------------------------------------ properties *)
ZeroVelocity == <<Zero, Zero, Zero>>
BetaSq == Dot(beta_xyz, beta_xyz)
\* beta.beta < 1
ValidVelocity == Less(BetaSq, One)
\* exactly one object is selected and it is a mesh
OneMeshSelected ==
    Len(selected_objects) = 1 /\ ObjType[selected_objects[1]] = "MESH"
\* no vertex of any object has been assigned
NoWrites == \A o \in Objects : \A k \in 1..Len(co[o]) : writes[o][k] = 0
\* every vertex of the mesh under transformation has been assigned exactly once
AllWrittenOnce ==
    obj \in Objects /\ \A k \in 1..Len(co[obj]) : writes[obj][k] = 1
\* r is the square root of x: exact where x is the square of a fraction,
\* else the largest multiple k/SqrtDen whose square does not exceed x
IsSquare(x) == ISqrt(x[1]) * ISqrt(x[1]) = x[1] /\ ISqrt(x[2]) * ISqrt(x[2]) = x[2]
IsRootOf(r, x) ==
    /\ IsFinite(r) /\ IsFinite(x)
    /\ r[1] >= 0
    /\ IF IsSquare(x) THEN Mul(r, r) = x
       ELSE /\ SqrtDen % r[2] = 0
            /\ LET k == r[1] * (SqrtDen \div r[2])
                   n == ScaledFloor(x)
               IN  k * k <= n /\ n < (k + 1) * (k + 1)
AbsF(x) == IF Less(x, Zero) THEN Neg(x) ELSE x
MatMul(A, B) ==
    [i \in 1..4 |-> [j \in 1..4 |-> Dot(A[i], [k \in 1..4 |-> B[k][j]])]]

\* C1: every run with beta.beta >= 1 ends in an error raised before any
\* computation and leaves every vertex position unchanged; every run with
\* beta.beta < 1 (one mesh selected, a camera in the scene) succeeds.  Stated
\* for a mesh that has vertices.
C1_InvalidVelocityRejected ==
    (pc = "done" /\ OneMeshSelected /\ Len(co0[selected_objects[1]]) > 0) =>
        IF ValidVelocity
        THEN camera # NoCamera => status = "FINISHED"
        ELSE status # "FINISHED" /\ co = co0 /\ NoWrites

C3_InvalidSelectionNoOp ==
    (pc = "done" /\ ~OneMeshSelected) =>
        /\ status = "FINISHED"
        /\ reports =
             << IF Len(selected_objects) = 0 THEN "One object has to be selected!"
                ELSE IF Len(selected_objects) > 1 THEN "Select only one object!"
                ELSE "Selected object has to be a mesh-object!" >>
        /\ co = co0 /\ NoWrites
        /\ obj = "none" /\ L = Unset /\ invL = Unset /\ a2 = Unset /\ obs2 = Unset
C3_Witness ==
    /\ pc = "done" /\ status = "FINISHED"
    /\ selected_objects = <<"Lamp", "Cube">>
    /\ reports = <<"Select only one object!">>
    /\ camera = NoCamera
    /\ beta_xyz = <<One, Zero, Zero>>

\* C4: for beta = (0,0,0) the Lorentz matrix and its inverse are the identity
\* and every vertex keeps its input position, whatever the observation time
\* and the offsets of observer and object (the object offset is not added).
C4_ZeroVelocityIdentity ==
    (pc # "idle" /\ beta_xyz = ZeroVelocity) =>
        /\ co = co0
        /\ L # Unset => L = Identity4
        /\ invL # Unset => invL = Identity4
        /\ pc = "loop" => (L = Identity4 /\ invL = Identity4)
C4_Witness ==
    /\ pc = "done" /\ status = "FINISHED" /\ beta_xyz = ZeroVelocity
    /\ obj = "Cube" /\ location["Cube"] = V3(2, 0, 0)
    /\ camera = V3(1, 0, 0) /\ t_obs = One
    /\ Len(co["Cube"]) = 2 /\ AllWrittenOnce
    /\ co["Cube"][1] = V3(1, 0, 0)
    /\ L = Identity4

\* C7: whenever the operation can be triggered, every component of the
\* velocity property lies strictly between -1 and 1.
C7_VelocityInRange ==
    pc = "idle" =>
        \A k \in 1..3 : Less(Neg(One), beta_xyz[k]) /\ Less(beta_xyz[k], One)

\* 4-vectors the round trip through L and invL is tried on
C5_TestVectors == {Append4(t, p) : t \in Times, p \in Points}
\* C5: for every valid beta the inverse used by the pipeline is a two-sided
\* inverse of L, undoes L on every 4-vector, and is the boost built by the same
\* formula for -beta: exactly where gamma is exact, and entry by entry within
\* the rounding of the square root (4 * gamma^2 / SqrtDen) where it is not.
C5_InverseIsBoostBack ==
    (pc \in {"loop", "done"} /\ ValidVelocity /\ invL # Unset) =>
        LET g == L[1][1]
            B == lorentzMatrix([k \in 1..3 |-> Neg(beta_xyz[k])])
            tol == IF Mul(Mul(g, g), Sub(One, BetaSq)) = One THEN Zero
                   ELSE Div(Mul(Q(4, 1), Mul(g, g)), Q(SqrtDen, 1))
        IN  /\ MatMul(invL, L) = Identity4
            /\ MatMul(L, invL) = Identity4
            /\ \A x \in C5_TestVectors : MatVec(invL, MatVec(L, x)) = x
            /\ \A i \in 1..4 : \A j \in 1..4 :
                  Leq(AbsF(Sub(invL[i][j], B[i][j])), tol)
C5_Witness ==
    /\ pc = "loop" /\ invL # Unset
    /\ beta_xyz = <<Q(1, 2), Q(-1, 2), Q(1, 2)>>
    /\ L[1][1] = Q(2, 1)
    /\ invL[1][2] = Q(1, 1)

\* C6: within an invocation the camera position, the object offsets, the
\* selection, the velocity and the observation time never change, no mesh
\* gains or loses a vertex, a position that changes is that of the current
\* vertex of the single selected mesh, assigned for the first time, and a
\* successful run has assigned every vertex of that mesh exactly once.
C6_OnlySelectedMeshChanges ==
    [][ pc' # "idle" =>
          /\ camera' = camera /\ location' = location
          /\ selected_objects' = selected_objects
          /\ beta_xyz' = beta_xyz /\ t_obs' = t_obs
          /\ \A o \in Objects : Len(co'[o]) = Len(co[o])
          /\ \A o \in Objects : \A k \in 1..Len(co[o]) :
                co'[o][k] # co[o][k] =>
                   /\ selected_objects = <<o>>
                   /\ k = idx
                   /\ writes[o][k] = 0 /\ writes'[o][k] = 1
          /\ (status' = "FINISHED" /\ reports' = <<>>) =>
                \A k \in 1..Len(co'[obj']) : writes'[obj'][k] = 1 ]_vars
C6_Witness ==
    /\ pc = "done" /\ status = "FINISHED" /\ obj = "Cube"
    /\ beta_xyz = DefaultBeta
    /\ Len(co["Cube"]) = 2 /\ AllWrittenOnce
    /\ co["Cube"][1] # co0["Cube"][1] /\ co["Cube"][2] # co0["Cube"][2]
    /\ co["Plane"] = co0["Plane"]

\* C8: for every valid beta, L[0][0] is gamma = 1/sqrt(1 - beta.beta) (the
\* root exact or rounded down to the grid) and the time-space entries are
\* symmetric: L[0][i] = L[i][0] = -gamma * beta[i-1].
C8_TimeSpaceEntries ==
    (pc # "idle" /\ ValidVelocity /\ L # Unset) =>
        LET g == L[1][1]
        IN  /\ Less(Zero, g)
            /\ IsRootOf(Div(One, g), Sub(One, BetaSq))
            /\ \A i \in 1..3 :
                  /\ L[1][i + 1] = L[i + 1][1]
                  /\ L[1][i + 1] = Neg(Mul(g, beta_xyz[i]))
C8_Witness ==
    /\ pc = "loop" /\ L # Unset
    /\ beta_xyz = <<Q(1, 2), Q(-1, 2), Q(1, 2)>>
    /\ L[1][1] = Q(2, 1)
    /\ L[1][3] = Q(1, 1) /\ L[3][1] = Q(1, 1)

\* the end-to-end scenario with an object offset
C9_Scenario ==
    /\ beta_xyz = ZeroVelocity /\ t_obs = Zero
    /\ camera = V3(0, 0, 0) /\ location[obj] = V3(2, 0, 0)
\* C9: obs2 = L.((t_obs,0,0,0) + a1 - a2); after each pass of the loop, delta
\* is the Euclidean distance from the vertex's input position to obs2's
\* spatial part and tp2 = obs2.time - delta; a vertex at distance 0 gives
\* tp2 = obs2.time and raises nothing.  With beta = 0, t_obs = 0, the observer
\* at the origin, the object at (2,0,0) and the vertex (1,0,0): obs2's spatial
\* part is (-2,0,0), delta = 3 and tp2 = -3.
C9_LightConeDistance ==
    (pc \in {"loop", "done"} /\ obs2 # Unset /\ ValidVelocity) =>
        /\ obs2 = MatVec(L, Append4(t_obs, VSub(camera, location[obj])))
        /\ status \in {"none", "FINISHED"}
        /\ C9_Scenario => Spatial(obs2) = V3(-2, 0, 0)
        /\ idx > 1 =>
             LET v == co0[obj][idx - 1]
                 dx == VSub(v, Spatial(obs2))
             IN  /\ IsRootOf(delta, Dot(dx, dx))
                 /\ Add(tp2, delta) = obs2[1]
                 /\ v = Spatial(obs2) => (delta = Zero /\ tp2 = obs2[1])
                 /\ (C9_Scenario /\ v = V3(1, 0, 0)) =>
                        (delta = Q(3, 1) /\ tp2 = Q(-3, 1))
C9_Witness ==
    /\ pc = "done" /\ status = "FINISHED" /\ obj = "Cube"
    /\ C9_Scenario
    /\ co0["Cube"] = <<V3(-2, 0, 0), V3(1, 0, 0)>>
    /\ AllWrittenOnce
    /\ Spatial(obs2) = V3(-2, 0, 0)
    /\ delta = Q(3, 1) /\ tp2 = Q(-3, 1)

\* the image of an input position v under the invocation's L, invL, obs2
C10_VertexImage(v) ==
    LET dx == VSub(v, Spatial(obs2))
        t == Sub(obs2[1], Sqrt(Dot(dx, dx)))
        e == MatVec(invL, Append4(t, v))
    IN  [k \in 1..3 |-> ToFloat32(e[k + 1])]
\* C10: L, invL and obs2 are functions of the velocity, the observation time
\* and the two offsets alone, and stay so throughout the loop; each vertex
\* already processed holds the image of its own input position under the map
\* these values define, each vertex not yet processed holds its input position.
C10_VerticesIndependent ==
    (pc \in {"loop", "done"} /\ obs2 # Unset) =>
        /\ L = lorentzMatrix(beta_xyz)
        /\ invL = Inv(L)
        /\ obs2 = MatVec(L, Append4(t_obs, VSub(camera, location[obj])))
        /\ \A k \in 1..Len(co[obj]) :
              co[obj][k] = IF k < idx THEN C10_VertexImage(co0[obj][k])
                           ELSE co0[obj][k]
C10_Witness ==
    /\ pc = "done" /\ status = "FINISHED" /\ obj = "Cube"
    /\ beta_xyz = <<Q(3, 5), Zero, Zero>> /\ t_obs = One
    /\ co0["Cube"] = <<V3(1, 0, 0), V3(0, 1, 1)>>
    /\ AllWrittenOnce
    /\ co["Cube"][1] # co0["Cube"][1] /\ co["Cube"][2] # co0["Cube"][2]
    /\ co["Cube"][1] # co["Cube"][2]

====
